---- MODULE Spec2Model ----
(***************************************************************************)
(* State-machine model of the instant-be backend (Django/DRF): the chat    *)
(* service and its webhook, file soft delete, daily analytics counters,    *)
(* system metrics and report creation.                                     *)
(*                                                                         *)
(* Text values (message content, prompts, webhook replies) are sequences   *)
(* of tokens; a token is one character, one markup tag, or one of the      *)
(* fixed texts of the code.  Database tables are sequences of rows; a row  *)
(* id is its index, 0 stands for None.                                     *)
(***************************************************************************)
EXTENDS Integers, Sequences, FiniteSets, TLC

\* ------------------------------------------------------------------------
\* Bounds of the model
\* ------------------------------------------------------------------------
MaxRequests == 1
MaxFiles == 2
MaxShares == 1

\* ------------------------------------------------------------------------
\* Fixed data
\* ------------------------------------------------------------------------
Users == {"u1", "u2"}

\* Users whose role is 'admin' (User.is_admin).
Admins == {"admin"}

AllUsers == Users \cup Admins

is_admin(user) == user \in Admins

\* Accounts with is_staff=True; their role is the default, 'user'.
StaffUsers == {"staff"}

is_staff(user) == user \in StaffUsers

\* Everyone who sends requests.
Requesters == AllUsers \cup StaffUsers

NULL == -1

ApologyTechnical == <<"I apologize, but I'm experiencing technical difficulties. Please try again later.">>
ApologyNoResponse == <<"I apologize, but I couldn't generate a proper response. Please try again.">>
ApologyScope == <<"## Apologies, but that question seems too general or outside my trained scope based on internal documents.">>
ApologyConnect == <<"I apologize, but I'm having trouble connecting to the knowledge base. Please try again later.">>
ApologyProcessing == <<"I apologize, but something went wrong while processing your request. Please try again.">>
AnErrorOccurred == <<"An error occurred">>
ErrorWhileProcessing == <<"An error occurred while processing your message.">>

\* The static apology texts of the chat service.
ApologyTexts ==
    {ApologyTechnical, ApologyNoResponse, ApologyScope, ApologyConnect, ApologyProcessing}

\* len() of one token.
TokLen(tok) ==
    CASE tok = ApologyTechnical[1] -> 81
      [] tok = ApologyNoResponse[1] -> 73
      [] tok = ApologyScope[1] -> 106
      [] tok = ApologyConnect[1] -> 93
      [] tok = ApologyProcessing[1] -> 86
      [] tok = AnErrorOccurred[1] -> 17
      [] tok = ErrorWhileProcessing[1] -> 48
      [] tok = "<b>" -> 3
      [] tok = "**" -> 2
      [] tok = "..." -> 3
      [] OTHER -> 1

RECURSIVE StrLen(_)
\* len() of a text.
StrLen(s) == IF s = <<>> THEN 0 ELSE TokLen(Head(s)) + StrLen(Tail(s))

RECURSIVE Concat(_)
\* "".join(seqs)
Concat(seqs) == IF seqs = <<>> THEN <<>> ELSE Head(seqs) \o Concat(Tail(seqs))

RECURSIVE SplitFrom(_, _)
\* str.split(' ') with the word being read carried along.
SplitFrom(s, word) ==
    IF s = <<>> THEN <<word>>
    ELSE IF Head(s) = " " THEN <<word>> \o SplitFrom(Tail(s), <<>>)
    ELSE SplitFrom(Tail(s), Append(word, Head(s)))

\* Faulty variant: str.split() without a separator, which drops empty words.
SplitDroppingEmpty(s) == SelectSeq(SplitFrom(s, <<>>), LAMBDA w : w # <<>>)

\* content.split(' '): every single space separates, so consecutive spaces
\* give empty words and the empty text gives one empty word.
Split(s) == SplitFrom(s, <<>>)

RECURSIVE LStrip(_)
LStrip(s) == IF s # <<>> /\ Head(s) \in {" ", "\n"} THEN LStrip(Tail(s)) ELSE s

RECURSIVE RStrip(_)
RStrip(s) ==
    IF s # <<>> /\ s[Len(s)] \in {" ", "\n"} THEN RStrip(SubSeq(s, 1, Len(s) - 1)) ELSE s

\* str.strip()
Strip(s) == RStrip(LStrip(s))

\* markdownify: markup tags become their Markdown counterparts, text stays.
md(s) == [i \in 1..Len(s) |-> IF s[i] = "<b>" THEN "**" ELSE s[i]]

Max(a, b) == IF a >= b THEN a ELSE b

\* AIService._calculate_tokens
_calculate_tokens(input_text, output_text) ==
    Max(1, (StrLen(input_text) + StrLen(output_text)) \div 4)

\* ------------------------------------------------------------------------
\* The webhook: what one POST can come back with
\* ------------------------------------------------------------------------
\* requests.exceptions.RequestException: no connection, timeout, or an HTTP
\* error status turned into an exception by raise_for_status().
RequestFailures == {"connection_error", "timeout", "http_error"}

\* Reply texts the webhook is given to answer with.
Contents == {<<>>, <<"a">>, <<"a", " ", "b">>, <<"<b>", " ", " ", "a">>}

DocumentNames == {<<>>, <<"doc.pdf">>}

NoOutcome == [kind |-> "none", content |-> <<>>, docs |-> <<>>]

WebhookOutcomes ==
    [kind : RequestFailures, content : {<<>>}, docs : {<<>>}]
    \cup [kind : {"list_content"}, content : Contents, docs : {<<>>}]
    \cup [kind : {"list_content"}, content : {<<"a", " ", "b">>}, docs : DocumentNames]
    \cup [kind : {"list_no_content", "list_content_null", "empty_list"},
          content : {<<>>}, docs : {<<>>}]
    \cup [kind : {"dict_answer"}, content : {<<"a">>}, docs : {<<>>}]

\* ------------------------------------------------------------------------
\* Stream chunks: Python dicts, with the set of keys that are present
\* ------------------------------------------------------------------------
EmptyChunk ==
    [type |-> "", has |-> {}, content |-> <<>>, response |-> <<>>,
     sources |-> <<>>, source |-> <<>>, error |-> "",
     accumulated_response |-> <<>>, tokens_used |-> 0, model_used |-> "",
     success |-> FALSE]

\* dict.get(key, default)
Get(chunk, key, default) == IF key \in chunk.has THEN chunk[key] ELSE default

\* dict[key] = val
Put(chunk, key, val) == [chunk EXCEPT ![key] = val, !.has = @ \cup {key}]

DeltaChunk(word) ==
    Put(Put(EmptyChunk, "type", "delta"), "content", word \o <<" ">>)

SourceChunk(sources) ==
    Put(Put(EmptyChunk, "type", "source_document"), "source", sources)

CompleteChunk(content, sources) ==
    Put(Put(Put(Put(EmptyChunk, "type", "complete"), "response", md(content)),
            "sources", sources), "accumulated_response", content)

ErrorChunk(error) == Put(Put(EmptyChunk, "type", "error"), "error", error)

ErrorChunkWithResponse(response, error) ==
    Put(Put(ErrorChunk(error), "response", response), "sources", <<>>)

\* ------------------------------------------------------------------------
\* AIService
\* ------------------------------------------------------------------------
\* The reply of the webhook reshaped as in AIService._call_rag_api: the text
\* and the sources returned.  Every exception of the call is caught inside
\* and answered with a fixed text, so nothing is raised to the caller.
RagResult(outcome) ==
    LET answered(response, sources) ==
            [raised |-> FALSE, response |-> response, sources |-> sources]
        ai_response ==
            CASE outcome.kind = "list_content" -> outcome.content
              [] outcome.kind = "dict_answer" -> outcome.content
              [] OTHER -> <<>>
        sources == IF outcome.kind = "list_content" THEN outcome.docs ELSE <<>>
    IN  IF outcome.kind \in RequestFailures THEN answered(ApologyScope, <<>>)
        ELSE IF outcome.kind = "empty_list" THEN answered(ApologyScope, <<>>)
        ELSE IF ai_response = <<>> THEN answered(ApologyNoResponse, <<>>)
        ELSE answered(md(ai_response), sources)

\* Faulty variant: a failed POST is tried a second time.
_call_rag_api_retrying(message, outcome) ==
    [result |-> RagResult(outcome),
     posts |-> IF outcome.kind \in RequestFailures THEN 2 ELSE 1]

\* AIService._call_rag_api: one requests.post, then the reply reshaped.
_call_rag_api(message, outcome) == [result |-> RagResult(outcome), posts |-> 1]

\* AIService.generate_response
generate_response(message, outcome) ==
    LET call == _call_rag_api(message, outcome)
        rag_result == call.result
    IN  IF rag_result.raised
        THEN [response |-> ApologyTechnical, sources |-> <<>>, tokens_used |-> 0,
              model_used |-> "mock-ai-model-v1", success |-> FALSE,
              error |-> "exception", posts |-> call.posts]
        ELSE [response |-> rag_result.response, sources |-> rag_result.sources,
              tokens_used |-> _calculate_tokens(message, rag_result.response),
              model_used |-> "rag-instant-ai", success |-> TRUE,
              error |-> "", posts |-> call.posts]

\* AIService._call_rag_api_stream: one POST, then the chunks the generator
\* yields for the reply, in order.
_call_rag_api_stream(message, outcome) ==
    LET words == Split(outcome.content)
        deltas == [i \in 1..Len(words) |-> DeltaChunk(words[i])]
        sources == outcome.docs
        chunks ==
            CASE outcome.kind \in RequestFailures ->
                    <<ErrorChunkWithResponse(ApologyConnect, outcome.kind)>>
              [] outcome.kind = "list_content" ->
                    deltas
                    \o (IF sources # <<>> THEN <<SourceChunk(sources)>> ELSE <<>>)
                    \o <<CompleteChunk(outcome.content, sources)>>
              [] outcome.kind = "list_no_content" ->
                    <<ErrorChunk("No content found in webhook response")>>
              [] outcome.kind = "list_content_null" ->
                    <<ErrorChunkWithResponse(ApologyProcessing, "AttributeError")>>
              [] OTHER -> <<ErrorChunk("Invalid webhook response format")>>
    IN  [chunks |-> chunks, posts |-> 1]

\* The body of the loop of AIService.generate_response_stream: the metadata
\* added to one chunk.
AddMetadata(message, chunk) ==
    LET c1 == Put(chunk, "model_used", "rag-instant-ai")
        c2 == Put(c1, "success", chunk.type # "error")
        c3 == Put(c2, "error", Get(chunk, "error", ""))
    IN  IF chunk.type = "success"
        THEN Put(c3, "tokens_used",
                 _calculate_tokens(message, Get(chunk, "accumulated_response", <<>>)))
        ELSE c3

\* AIService.generate_response_stream
generate_response_stream(message, outcome) ==
    LET rag == _call_rag_api_stream(message, outcome)
    IN  [chunks |-> [i \in 1..Len(rag.chunks) |-> AddMetadata(message, rag.chunks[i])],
         posts |-> rag.posts]

\* ------------------------------------------------------------------------
\* State
\* ------------------------------------------------------------------------
VARIABLES
    templates,      \* chat_templates: id -> row
    folders,        \* chat folders: id -> row
    conversations,  \* chat_conversations rows
    messages,       \* chat_messages rows, in creation order
    session_chat,   \* user -> chat_messages_sent of the user's open session
    rq,             \* the chat request being served, or the last one served
    nreq,           \* chat requests accepted so far
    files,          \* files rows
    storage,        \* ids of the files whose bytes are in local storage
    shares,         \* file_shares rows
    trashed,        \* history: ids of the files deleted through the API
    analytics_events,   \* analytics_events rows, counted per <<user, type, day>>
    user_activities,    \* user_activities rows, in insertion order
    calls,              \* worker -> the track_event call it is running
    ncalls,             \* track_event calls begun so far
    today,              \* timezone.now().date()
    system_metrics,     \* system_metrics rows, in insertion order
    db_op,              \* history: the last write attempted on an analytics table
    reports,            \* reports rows, in insertion order
    report_call,        \* history: the last POST to the report list endpoint
    report_mark,        \* history: the last status method called on a report
    error_logs,         \* error_logs rows, in insertion order
    error_patch,        \* history: the last PATCH of an error log
    list_call,          \* history: the last GET of an admin-only list
    clock,              \* timezone.now(), in days
    subscriptions,      \* user -> the subscription columns of the user row
    sub_call,           \* history: the last call of upgrade_subscription
    sessions,           \* user_sessions rows, in insertion order
    total_time_spent,   \* user -> total_time_spent of the user row, in days
    logouts             \* worker -> the logout request it is serving

chatVars == <<templates, folders, conversations, messages, session_chat, rq, nreq>>

fileVars == <<files, storage, shares, trashed>>

analyticsVars == <<analytics_events, user_activities, calls, ncalls, today,
                   system_metrics, db_op>>

reportVars == <<reports, report_call, report_mark>>

errorVars == <<error_logs, error_patch, list_call>>

authVars == <<clock, subscriptions, sub_call>>

sessionVars == <<sessions, total_time_spent, logouts>>

vars == <<chatVars, fileVars, analyticsVars, reportVars, errorVars, authVars,
          sessionVars>>

IdleRequest ==
    [kind |-> "none", pc |-> "idle", user |-> "", request_message |-> <<>>,
     message |-> <<>>, template_id |-> 0, conversation |-> 0, user_message |-> 0,
     assistant_message |-> 0, outcome |-> NoOutcome, posts |-> 0,
     lookups_ok |-> FALSE, success |-> FALSE, pending |-> <<>>, chunks |-> <<>>,
     accumulated_response |-> <<>>, sources |-> <<>>]

InitChat ==
    /\ templates = <<[is_public |-> TRUE, created_by |-> "u1", prompt |-> <<"P">>,
                      usage_count |-> 0],
                     [is_public |-> FALSE, created_by |-> "u1", prompt |-> <<"Q">>,
                      usage_count |-> 0]>>
    /\ folders = <<[user |-> "u1"]>>
    /\ conversations = <<>>
    /\ messages = <<>>
    /\ session_chat = [u \in Users |-> 0]
    /\ rq = IdleRequest
    /\ nreq = 0

\* ------------------------------------------------------------------------
\* Chat models
\* ------------------------------------------------------------------------
\* Conversation row as Conversation.objects.create(user=..., folder=...) makes it.
NewConversation(user, folder) ==
    [user |-> user, folder |-> folder, title |-> <<>>, total_messages |-> 0,
     total_tokens_used |-> 0]

\* ChatMessage row with the field defaults of the model.  ChatMessage.save()
\* also saves the conversation with update_fields=['updated_at'], which
\* writes no modelled column (the title computed in Conversation.save() is
\* not among the update fields and so is not written).
NewMessage(conversation, user, message_type, content, status) ==
    [conversation |-> conversation, user |-> user, message_type |-> message_type,
     content |-> content, status |-> status, tokens_used |-> NULL,
     model_used |-> "", error_message |-> "", sources |-> <<>>]

RECURSIVE SumTokens(_, _)
\* sum(msg.tokens_used or 0 for msg in conversation.messages.all())
SumTokens(msgs, cid) ==
    IF msgs = <<>> THEN 0
    ELSE (IF Head(msgs).conversation = cid /\ Head(msgs).tokens_used # NULL
          THEN Head(msgs).tokens_used ELSE 0) + SumTokens(Tail(msgs), cid)

\* conversation.messages.count()
CountMessages(msgs, cid) ==
    Cardinality({i \in 1..Len(msgs) : msgs[i].conversation = cid})

\* Conversation.update_stats
update_stats(convs, msgs, cid) ==
    [convs EXCEPT ![cid].total_messages = CountMessages(msgs, cid),
                  ![cid].total_tokens_used = SumTokens(msgs, cid)]

RECURSIVE Truncate(_, _)
\* s[:n]
Truncate(s, n) ==
    IF s = <<>> \/ TokLen(Head(s)) > n THEN <<>>
    ELSE <<Head(s)>> \o Truncate(Tail(s), n - TokLen(Head(s)))

\* The title Conversation.save() derives from the first user message.
Conversation_title(content) ==
    Truncate(content, 50) \o (IF StrLen(content) > 50 THEN <<"...">> ELSE <<>>)

\* ChatTemplate.increment_usage
increment_usage(tmpls, tid) == [tmpls EXCEPT ![tid].usage_count = @ + 1]

\* ------------------------------------------------------------------------
\* ChatRequestSerializer
\* ------------------------------------------------------------------------
validate_message(value) == Strip(value) # <<>>

validate_conversation_id(value, user) ==
    \/ value = 0
    \/ value \in 1..Len(conversations) /\ conversations[value].user = user

validate_template_id(value, user) ==
    \/ value = 0
    \/ value \in 1..Len(templates) /\ templates[value].is_public
    \/ value \in 1..Len(templates) /\ templates[value].created_by = user

\* ------------------------------------------------------------------------
\* ChatService
\* ------------------------------------------------------------------------
\* Conversation.objects.get(id=conversation_id, user=user) finds a row.
ConversationLookup(cid, user) ==
    cid \in 1..Len(conversations) /\ conversations[cid].user = user

\* Folder.objects.get(id=folder_id, user=user) finds a row.
FolderLookup(fid, user) == fid \in 1..Len(folders) /\ folders[fid].user = user

\* ChatTemplate.objects.get(id=template_id, is_public=True) finds a row.
TemplateLookup(tid) == tid \in 1..Len(templates) /\ templates[tid].is_public

\* The common first part of process_chat_message and
\* process_chat_message_stream: conversation, template, user message.  A
\* failed lookup raises; what was written before it stays written.
Prepare(user, message_content, cid, tid, fid) ==
    LET conv_found == cid = 0 \/ ConversationLookup(cid, user)
        folder == IF fid # 0 /\ FolderLookup(fid, user) THEN fid ELSE 0
        convs1 == IF cid = 0
                  THEN Append(conversations, NewConversation(user, folder))
                  ELSE conversations
        conversation == IF cid = 0 THEN Len(convs1) ELSE cid
        tmpl_found == tid = 0 \/ TemplateLookup(tid)
        content == IF tid # 0
                   THEN templates[tid].prompt \o <<"\n", "\n">> \o message_content
                   ELSE message_content
        tmpls1 == IF tid # 0 THEN increment_usage(templates, tid) ELSE templates
        failed(convs) ==
            [ok |-> FALSE, conversations |-> convs, templates |-> templates,
             messages |-> messages, conversation |-> 0, user_message |-> 0,
             message_content |-> message_content]
    IN  IF ~conv_found THEN failed(conversations)
        ELSE IF ~tmpl_found THEN failed(convs1)
        ELSE [ok |-> TRUE, conversations |-> convs1, templates |-> tmpls1,
              messages |-> Append(messages,
                  NewMessage(conversation, user, "user", content, "completed")),
              conversation |-> conversation, user_message |-> Len(messages) + 1,
              message_content |-> content]

\* ChatService._update_user_activity: the open session's counter.
_update_user_activity(sess, user) == [sess EXCEPT ![user] = @ + 1]

\* ChatService.process_chat_message: the state it leaves and its result.
process_chat_message(user, message_content, cid, tid, fid, outcome) ==
    LET p == Prepare(user, message_content, cid, tid, fid)
        ai_result == generate_response(p.message_content, outcome)
        assistant_message ==
            [NewMessage(p.conversation, user, "assistant", ai_result.response,
                        IF ai_result.success THEN "completed" ELSE "failed")
             EXCEPT !.sources = ai_result.sources,
                    !.tokens_used = ai_result.tokens_used,
                    !.model_used = ai_result.model_used,
                    !.error_message = ai_result.error]
        msgs2 == Append(p.messages, assistant_message)
    IN  IF ~p.ok
        THEN [success |-> FALSE, templates |-> p.templates,
              conversations |-> p.conversations, messages |-> p.messages,
              session_chat |-> session_chat, conversation |-> 0,
              user_message |-> 0, assistant_message |-> 0,
              message_content |-> p.message_content, posts |-> 0]
        ELSE [success |-> TRUE, templates |-> p.templates,
              conversations |-> update_stats(p.conversations, msgs2, p.conversation),
              messages |-> msgs2,
              session_chat |-> _update_user_activity(session_chat, user),
              conversation |-> p.conversation, user_message |-> p.user_message,
              assistant_message |-> Len(msgs2),
              message_content |-> p.message_content, posts |-> ai_result.posts]

\* Faulty variant: an 'error' chunk is not handled, the row stays as it was.
StreamMessageUpdate_ErrorUnhandled(row, chunk) ==
    CASE chunk.type = "delta" ->
            [row EXCEPT !.content = Get(chunk, "accumulated_response", <<>>)]
      [] chunk.type = "sources" ->
            [row EXCEPT !.sources = Get(chunk, "sources", <<>>)]
      [] chunk.type = "complete" ->
            [row EXCEPT !.content = Get(chunk, "response", <<>>),
                        !.sources = Get(chunk, "sources", <<>>),
                        !.status = "completed",
                        !.tokens_used = Get(chunk, "tokens_used", 0),
                        !.model_used = Get(chunk, "model_used", "")]
      [] OTHER -> row

\* Faulty variant: a 'complete' chunk leaves the status as it was.
StreamMessageUpdate_CompleteKeepsStatus(row, chunk) ==
    CASE chunk.type = "delta" ->
            [row EXCEPT !.content = Get(chunk, "accumulated_response", <<>>)]
      [] chunk.type = "sources" ->
            [row EXCEPT !.sources = Get(chunk, "sources", <<>>)]
      [] chunk.type = "complete" ->
            [row EXCEPT !.content = Get(chunk, "response", <<>>),
                        !.sources = Get(chunk, "sources", <<>>),
                        !.tokens_used = Get(chunk, "tokens_used", 0),
                        !.model_used = Get(chunk, "model_used", "")]
      [] chunk.type = "error" ->
            [row EXCEPT !.content = Get(chunk, "response", AnErrorOccurred),
                        !.status = "failed",
                        !.error_message = Get(chunk, "error", "")]
      [] OTHER -> row

\* The assistant row after one chunk is handled in the loop of
\* process_chat_message_stream.
StreamMessageUpdate(row, chunk) ==
    CASE chunk.type = "delta" ->
            [row EXCEPT !.content = Get(chunk, "accumulated_response", <<>>)]
      [] chunk.type = "sources" ->
            [row EXCEPT !.sources = Get(chunk, "sources", <<>>)]
      [] chunk.type = "complete" ->
            [row EXCEPT !.content = Get(chunk, "response", <<>>),
                        !.sources = Get(chunk, "sources", <<>>),
                        !.status = "completed",
                        !.tokens_used = Get(chunk, "tokens_used", 0),
                        !.model_used = Get(chunk, "model_used", "")]
      [] chunk.type = "error" ->
            [row EXCEPT !.content = Get(chunk, "response", AnErrorOccurred),
                        !.status = "failed",
                        !.error_message = Get(chunk, "error", "")]
      [] OTHER -> row

\* What the client is sent of a chunk.
Yielded(chunk) == [type |-> chunk.type, content |-> Get(chunk, "content", <<>>)]

\* The chunk of the outer except of process_chat_message_stream.
OuterErrorChunk ==
    Put(Put(ErrorChunkWithResponse(ErrorWhileProcessing, "exception"),
            "success", FALSE), "model_used", "")

\* ------------------------------------------------------------------------
\* Chat requests
\* ------------------------------------------------------------------------
\* Request bodies: the message as sent (the serializer strips it).
LongMessage == [i \in 1..51 |-> "x"]

RawMessages == {<<"h", "i">>, <<" ", "h", "i">>, <<" ">>, LongMessage}

\* A new chat request can be taken: none is being served.
ChatReady == rq.pc \in {"idle", "done"} /\ nreq < MaxRequests

\* ChatRequestSerializer.is_valid
ChatAccepts(user, raw, cid, tid) ==
    /\ validate_message(raw)
    /\ validate_conversation_id(cid, user)
    /\ validate_template_id(tid, user)

\* POST /chat/ (ChatView.post): one request, served to its end.
ChatView_post ==
    /\ ChatReady
    /\ \E user \in Users, raw \in RawMessages, cid \in 0..Len(conversations),
       tid \in 0..Len(templates), fid \in 0..Len(folders),
       outcome \in WebhookOutcomes :
        /\ ChatAccepts(user, raw, cid, tid)
        /\ \E r \in {process_chat_message(user, Strip(raw), cid, tid, fid, outcome)} :
               /\ templates' = r.templates
               /\ conversations' = r.conversations
               /\ messages' = r.messages
               /\ session_chat' = r.session_chat
               /\ rq' = [IdleRequest EXCEPT
                            !.kind = "chat", !.pc = "done", !.user = user,
                            !.request_message = Strip(raw),
                            !.message = r.message_content,
                            !.template_id = tid,
                            !.conversation = r.conversation,
                            !.user_message = r.user_message,
                            !.assistant_message = r.assistant_message,
                            !.outcome = IF r.success THEN outcome ELSE NoOutcome,
                            !.posts = r.posts,
                            !.lookups_ok = r.success,
                            !.success = r.success]
        /\ nreq' = nreq + 1
        /\ UNCHANGED folders

\* POST /chat/stream/ (ChatStreamView.post): the generator runs up to the
\* webhook call; the assistant placeholder is stored in 'processing'.  When
\* a lookup raises, the generator yields one error chunk and ends.
ChatStreamView_post ==
    /\ ChatReady
    /\ \E user \in Users, raw \in RawMessages, cid \in 0..Len(conversations),
       tid \in 0..Len(templates), fid \in 0..Len(folders) :
        /\ ChatAccepts(user, raw, cid, tid)
        /\ \E p \in {Prepare(user, Strip(raw), cid, tid, fid)} :
           LET started == [IdleRequest EXCEPT
                              !.kind = "stream", !.user = user,
                              !.request_message = Strip(raw),
                              !.message = p.message_content,
                              !.template_id = tid,
                              !.conversation = p.conversation,
                              !.user_message = p.user_message,
                              !.lookups_ok = p.ok]
           IN  /\ templates' = p.templates
               /\ conversations' = p.conversations
               /\ IF p.ok
                  THEN /\ messages' = Append(p.messages,
                              NewMessage(p.conversation, user, "assistant", <<>>,
                                         "processing"))
                       /\ rq' = [started EXCEPT !.pc = "post",
                                    !.assistant_message = Len(p.messages) + 1]
                  ELSE /\ messages' = p.messages
                       /\ rq' = [started EXCEPT !.pc = "done",
                                    !.chunks = <<Yielded(OuterErrorChunk)>>]
        /\ nreq' = nreq + 1
        /\ UNCHANGED <<folders, session_chat>>

\* The generator reaches generate_response_stream: the POST is made and the
\* reply decides the chunks to come.
StreamCallWebhook ==
    /\ rq.kind = "stream" /\ rq.pc = "post"
    /\ \E outcome \in WebhookOutcomes :
        /\ LET g == generate_response_stream(rq.message, outcome)
           IN  rq' = [rq EXCEPT !.pc = "stream", !.outcome = outcome,
                                !.posts = @ + g.posts, !.pending = g.chunks]
        /\ UNCHANGED <<templates, folders, conversations, messages, session_chat, nreq>>

\* One turn of the loop of process_chat_message_stream: the next chunk is
\* handled and yielded; after the last one the generator ends.
StreamChunk ==
    /\ rq.kind = "stream" /\ rq.pc = "stream" /\ rq.pending # <<>>
    /\ LET chunk == Head(rq.pending)
           msgs1 == [messages EXCEPT ![rq.assistant_message] =
                        StreamMessageUpdate(@, chunk)]
       IN  /\ messages' = msgs1
           /\ IF chunk.type = "complete"
              THEN /\ conversations' = update_stats(conversations, msgs1, rq.conversation)
                   /\ session_chat' = _update_user_activity(session_chat, rq.user)
              ELSE UNCHANGED <<conversations, session_chat>>
           /\ rq' = [rq EXCEPT
                        !.pending = Tail(rq.pending),
                        !.chunks = Append(@, Yielded(chunk)),
                        !.accumulated_response =
                            CASE chunk.type = "delta" ->
                                    Get(chunk, "accumulated_response", <<>>)
                              [] chunk.type = "complete" -> Get(chunk, "response", <<>>)
                              [] OTHER -> @,
                        !.sources =
                            IF chunk.type \in {"sources", "complete"}
                            THEN Get(chunk, "sources", <<>>) ELSE @,
                        !.success = Get(chunk, "success", FALSE),
                        !.pc = IF Tail(rq.pending) = <<>> THEN "done" ELSE "stream"]
    /\ UNCHANGED <<templates, folders, nreq>>

ChatStep ==
    \/ ChatView_post
    \/ ChatStreamView_post
    \/ StreamCallWebhook
    \/ StreamChunk

\* ------------------------------------------------------------------------
\* Conversations and folders
\* ------------------------------------------------------------------------
\* Conversations created through the conversation list endpoint.
MaxConversations == 2

\* Folders created through the folder list endpoint.
MaxFolders == 2

\* The first user message of a conversation, 0 when it has none.
FirstUserMessage(cid) ==
    LET users == {i \in 1..Len(messages) :
                    messages[i].conversation = cid /\ messages[i].message_type = "user"}
    IN  IF users = {} THEN 0 ELSE CHOOSE i \in users : \A j \in users : i <= j

\* Conversation.save() of the whole row: an empty title is derived from the
\* first user message and written with the other columns.
Conversation_save(row, cid) ==
    IF row.title = <<>> /\ FirstUserMessage(cid) # 0
    THEN [row EXCEPT !.title = Conversation_title(messages[FirstUserMessage(cid)].content)]
    ELSE row

\* The queryset of ConversationDetailView for a user.
ConversationDetailView_get_queryset(user) ==
    {c \in 1..Len(conversations) : is_admin(user) \/ conversations[c].user = user}

\* POST /folders/ (FolderListView.perform_create)
FolderListView_post ==
    /\ Len(folders) < MaxFolders
    /\ \E user \in Users : folders' = Append(folders, [user |-> user])
    /\ UNCHANGED <<templates, conversations, messages, session_chat, rq, nreq>>

\* POST /conversations/ (ConversationListView.perform_create): the folder
\* is any existing folder, the serializer checks only that it exists.
ConversationListView_post ==
    /\ Len(conversations) < MaxConversations
    /\ \E user \in Users, folder \in 0..Len(folders) :
        conversations' = Append(conversations, NewConversation(user, folder))
    /\ UNCHANGED <<templates, folders, messages, session_chat, rq, nreq>>

\* PATCH /conversations/<pk>/ with a folder (ConversationDetailView).
ConversationDetailView_update ==
    /\ \E user \in AllUsers, c \in 1..Len(conversations), folder \in 0..Len(folders) :
        /\ c \in ConversationDetailView_get_queryset(user)
        /\ conversations' = [conversations EXCEPT
                ![c] = Conversation_save([@ EXCEPT !.folder = folder], c)]
    /\ UNCHANGED <<templates, folders, messages, session_chat, rq, nreq>>

\* POST /conversations/<id>/move/ (move_conversation_to_folder): both
\* lookups are by the requester; a failed one changes nothing.
move_conversation_to_folder ==
    /\ \E user \in AllUsers, c \in 1..Len(conversations), folder_id \in 0..Len(folders) :
        /\ conversations[c].user = user
        /\ folder_id # 0 => FolderLookup(folder_id, user)
        /\ conversations' = [conversations EXCEPT
                ![c] = Conversation_save([@ EXCEPT !.folder = folder_id], c)]
    /\ UNCHANGED <<templates, folders, messages, session_chat, rq, nreq>>

FoldersStep ==
    \/ ChatView_post
    \/ FolderListView_post
    \/ ConversationListView_post
    \/ ConversationDetailView_update
    \/ move_conversation_to_folder

\* ------------------------------------------------------------------------
\* Properties of the chat service
\* ------------------------------------------------------------------------
\* The request served last ran to its end.
RequestDone == rq.pc = "done"

\* The chunks of the given type the stream has yielded, in order.
ChunksOfType(type) == SelectSeq(rq.chunks, LAMBDA c : c.type = type)

\* C1: when the webhook call fails during process_chat_message, the
\* assistant message stored for the request has a static apology text as
\* content and status 'failed'.
C1_NonStreamFailureStoredFailed ==
    (rq.kind = "chat" /\ RequestDone /\ rq.outcome.kind \in RequestFailures)
    => /\ rq.assistant_message # 0
       /\ messages[rq.assistant_message].content \in ApologyTexts
       /\ messages[rq.assistant_message].status = "failed"

\* C2: when the webhook call fails during process_chat_message_stream, the
\* stream yields an 'error' chunk and no 'complete' chunk, and the assistant
\* placeholder ends with status 'failed' and a static apology text.
C2_StreamFailureStoredFailed ==
    (rq.kind = "stream" /\ RequestDone /\ rq.outcome.kind \in RequestFailures)
    => /\ ChunksOfType("error") # <<>>
       /\ ChunksOfType("complete") = <<>>
       /\ messages[rq.assistant_message].status = "failed"
       /\ messages[rq.assistant_message].content \in ApologyTexts

C2_Witness ==
    /\ rq.kind = "stream" /\ RequestDone /\ rq.outcome.kind \in RequestFailures
    /\ messages[rq.assistant_message].status = "failed"

C4_AtMostOnePost ==
    /\ rq.posts <= 1
    /\ (RequestDone /\ rq.lookups_ok) => rq.posts = 1

C4_Witness ==
    /\ RequestDone /\ rq.lookups_ok /\ rq.posts = 1
    /\ rq.outcome.kind \in RequestFailures

\* C5: for every template_id the serializer accepts (public, or private and
\* created by the requester) the chat request is processed: the stored user
\* message is the template prompt, a blank line, then the user's message,
\* and the template's usage_count grows by exactly 1.
C5_AcceptedTemplateApplied ==
    [][(nreq' = nreq + 1 /\ rq'.template_id # 0)
       => /\ rq'.lookups_ok
          /\ rq'.user_message # 0
          /\ messages'[rq'.user_message].content
                = templates[rq'.template_id].prompt \o <<"\n", "\n">>
                    \o rq'.request_message
          /\ templates'[rq'.template_id].usage_count
                = templates[rq'.template_id].usage_count + 1]_vars

\* C16: the assistant message of a streaming chat is created in status
\* 'processing'; once the generator has run to its end it is 'completed' or
\* 'failed', whatever the webhook answered; and a message that is
\* 'completed' or 'failed' never changes status again.
C16_StreamMessageEndsTerminal ==
    /\ []((rq.kind = "stream" /\ rq.assistant_message # 0)
           => /\ rq.pc = "post" => messages[rq.assistant_message].status = "processing"
              /\ RequestDone =>
                    messages[rq.assistant_message].status \in {"completed", "failed"})
    /\ [][\A i \in 1..Len(messages) :
            messages[i].status \in {"completed", "failed"}
            => messages'[i].status = messages[i].status]_vars

C16_Witness ==
    /\ rq.kind = "stream" /\ RequestDone /\ rq.assistant_message # 0
    /\ messages[rq.assistant_message].status = "completed"
    /\ Len(ChunksOfType("delta")) >= 2

\* C17: after each 'delta' chunk is handled, the stored content of the
\* assistant message is the concatenation of the delta texts received so far.
C17_DeltaContentAccumulates ==
    (rq.kind = "stream" /\ rq.chunks # <<>>
        /\ rq.chunks[Len(rq.chunks)].type = "delta")
    => LET deltas == ChunksOfType("delta")
       IN  messages[rq.assistant_message].content
             = Concat([i \in 1..Len(deltas) |-> deltas[i].content])

\* C18: after every chat request that ran to its end, streaming or not, the
\* conversation's total_messages is the number of its messages and its
\* total_tokens_used is the sum of their tokens_used.
C18_StatsMatchMessages ==
    (RequestDone /\ rq.conversation # 0)
    => /\ conversations[rq.conversation].total_messages
            = CountMessages(messages, rq.conversation)
       /\ conversations[rq.conversation].total_tokens_used
            = SumTokens(messages, rq.conversation)

\* C19: once a chat request has processed the first user message of an
\* untitled conversation, the stored conversation has as title the first 50
\* characters of that message, followed by '...' when it is longer.
C19_TitleFromFirstMessage ==
    (RequestDone /\ rq.user_message # 0
        /\ FirstUserMessage(rq.conversation) = rq.user_message)
    => conversations[rq.conversation].title
         = Conversation_title(messages[rq.user_message].content)

\* C20: an assistant message completed through the streaming path has
\* tokens_used = max(1, (len(user message) + len(reply)) // 4), never 0 or null.
C20_StreamTokensRecorded ==
    (rq.kind = "stream" /\ RequestDone /\ rq.assistant_message # 0
        /\ messages[rq.assistant_message].status = "completed")
    => messages[rq.assistant_message].tokens_used
         = _calculate_tokens(rq.message, rq.outcome.content)

\* C22: a conversation that is in a folder has the same owner as the
\* folder, whatever requests were served.
C22_FolderOwnerIsConversationOwner ==
    \A c \in 1..Len(conversations) :
        conversations[c].folder # 0
        => folders[conversations[c].folder].user = conversations[c].user

\* ------------------------------------------------------------------------
\* Files
\* ------------------------------------------------------------------------
\* timezone.now(): some instant, which is not NULL.
Now == 1

FileIds == 1..Len(files)

\* Faulty variant: the status is set, the deletion time is not.
soft_delete_StatusOnly(fs, f) == [fs EXCEPT ![f].status = "deleted"]

\* File.soft_delete
soft_delete(fs, f) ==
    [fs EXCEPT ![f].deleted_at = Now, ![f].status = "deleted"]

\* FileService._can_modify_file
_can_modify_file(f, user) == is_admin(user) \/ files[f].user = user

\* FileService._can_access_file
_can_access_file(f, user) ==
    \/ is_admin(user)
    \/ files[f].user = user
    \/ files[f].is_public
    \/ \E sh \in shares : sh.file = f /\ sh.shared_with = user /\ sh.can_view

\* FileService.download_file: every file that is listed in storage is read.
download_file(f, user) ==
    IF ~_can_access_file(f, user)
    THEN [success |-> FALSE, message |-> "Permission denied"]
    ELSE IF f \in storage THEN [success |-> TRUE, message |-> "downloaded"]
    ELSE [success |-> FALSE, message |-> "not found in storage"]

\* FileService.get_download_url
get_download_url(f, user) ==
    IF ~_can_access_file(f, user)
    THEN [success |-> FALSE, message |-> "Permission denied"]
    ELSE IF f \in storage THEN [success |-> TRUE, message |-> "url"]
    ELSE [success |-> FALSE, message |-> "not found in storage"]

\* FileService.delete_file: the tables after it, and whether it succeeded.
delete_file(f, user, hard_delete) ==
    IF ~_can_modify_file(f, user)
    THEN [success |-> FALSE, files |-> files, storage |-> storage]
    ELSE IF hard_delete
    THEN [success |-> TRUE, files |-> [files EXCEPT ![f].in_db = FALSE],
          storage |-> storage \ {f}]
    ELSE [success |-> TRUE, files |-> soft_delete(files, f), storage |-> storage]

\* The queryset of FileListView and of FileDetailView for a user.
FileQueryset(user) ==
    {f \in FileIds :
        /\ files[f].in_db
        /\ files[f].deleted_at = NULL
        /\ \/ is_admin(user)
           \/ files[f].user = user
           \/ files[f].is_public
           \/ \E sh \in shares : sh.file = f /\ sh.shared_with = user /\ sh.can_view}

\* get_object_or_404(File, id=file_id, deleted_at__isnull=True) of the
\* download and download-URL views.
DownloadQueryset == {f \in FileIds : files[f].in_db /\ files[f].deleted_at = NULL}

\* The files bulk_file_action and BulkFileActionSerializer select for a user.
BulkQueryset(user, file_ids) ==
    {f \in file_ids :
        /\ f \in FileIds /\ files[f].in_db
        /\ files[f].deleted_at = NULL
        /\ (is_admin(user) \/ files[f].user = user)}

\* IsOwnerOrAdmin.has_object_permission for a file.
IsOwnerOrAdmin(user, f) == is_admin(user) \/ files[f].user = user

\* The users who upload; the others, an admin among them, act on the files.
Uploaders == {"u1"}

\* POST /files/upload/: the row is created in 'uploading', the bytes are
\* written, and the row ends 'completed' or, when storing fails, 'failed'.
FileUploadView_post ==
    /\ Len(files) < MaxFiles
    /\ \E user \in Uploaders, is_public \in BOOLEAN, stored \in BOOLEAN :
        /\ files' = Append(files,
                [user |-> user, is_public |-> is_public,
                 status |-> IF stored THEN "completed" ELSE "failed",
                 deleted_at |-> NULL, in_db |-> TRUE])
        /\ storage' = IF stored THEN storage \cup {Len(files) + 1} ELSE storage
    /\ UNCHANGED <<shares, trashed>>

\* DELETE /files/<id>/ (FileDetailView.perform_destroy)
FileDetailView_destroy ==
    /\ \E user \in AllUsers, f \in FileIds :
        /\ f \in FileQueryset(user)
        /\ IsOwnerOrAdmin(user, f)
        /\ \E r \in {delete_file(f, user, FALSE)} :
            /\ files' = r.files
            /\ storage' = r.storage
            /\ trashed' = IF r.success THEN trashed \cup {f} ELSE trashed
    /\ UNCHANGED shares

\* PATCH /files/<id>/ (FileDetailView update): the row is saved whole.
FileDetailView_update ==
    /\ \E user \in AllUsers, f \in FileIds, is_public \in BOOLEAN :
        /\ f \in FileQueryset(user)
        /\ IsOwnerOrAdmin(user, f)
        /\ files' = [files EXCEPT ![f].is_public = is_public]
    /\ UNCHANGED <<storage, shares, trashed>>

RECURSIVE BulkApply(_, _, _)
\* The loop of bulk_file_action over the selected files.  'archive' sets an
\* attribute that is no column, so its save() changes no column.
BulkApply(fs, todo, action) ==
    IF todo = {} THEN fs
    ELSE LET f == CHOOSE x \in todo : \A y \in todo : x <= y
             fs1 == CASE action = "delete" -> soft_delete(fs, f)
                      [] action = "make_public" -> [fs EXCEPT ![f].is_public = TRUE]
                      [] action = "make_private" -> [fs EXCEPT ![f].is_public = FALSE]
                      [] OTHER -> fs
         IN  BulkApply(fs1, todo \ {f}, action)

\* POST /files/bulk-action/ (bulk_file_action)
bulk_file_action ==
    /\ \E user \in AllUsers, file_ids \in (SUBSET FileIds) \ {{}},
          action \in {"delete", "archive", "make_public", "make_private"} :
        /\ BulkQueryset(user, file_ids) = file_ids
        /\ files' = BulkApply(files, BulkQueryset(user, file_ids), action)
        /\ trashed' = IF action = "delete" THEN trashed \cup file_ids ELSE trashed
    /\ UNCHANGED <<storage, shares>>

\* expires_at of a new share: none, or an instant before Now.
ExpiryInputs == {NULL, 0}

\* FileShare.is_expired
is_expired(sh) == sh.expires_at # NULL /\ Now > sh.expires_at

\* FileShareSerializer.validate and FileShareView.perform_create, for a
\* request whose expires_at is one of expiries.
FileShareView_create(expiries) ==
    /\ Cardinality(shares) < MaxShares
    /\ \E user \in AllUsers, f \in FileIds, shared_with \in AllUsers,
          can_view \in BOOLEAN, expires_at \in expiries :
        /\ files[f].in_db
        /\ files[f].user = user
        /\ shared_with # user
        /\ ~\E sh \in shares : sh.file = f /\ sh.shared_with = shared_with
        /\ shares' = shares \cup
              {[file |-> f, shared_by |-> user, shared_with |-> shared_with,
                can_view |-> can_view, expires_at |-> expires_at]}
    /\ UNCHANGED <<files, storage, trashed>>

\* POST /files/share/ without expires_at: the share never expires.
FileShareView_post == FileShareView_create({NULL})

\* POST /files/share/ with or without expires_at.
FileShareView_post_expiring == FileShareView_create(ExpiryInputs)

FilesStep ==
    \/ FileUploadView_post
    \/ FileDetailView_destroy
    \/ FileDetailView_update
    \/ bulk_file_action
    \/ FileShareView_post

SharesStep ==
    \/ FileUploadView_post
    \/ FileDetailView_update
    \/ FileShareView_post_expiring

InitFiles ==
    /\ files = <<>>
    /\ storage = {}
    /\ shares = {}
    /\ trashed = {}

C21_ExpiredShareGivesNoAccess ==
    \A user \in AllUsers, f \in DownloadQueryset :
        (/\ ~is_admin(user) /\ files[f].user # user /\ ~files[f].is_public
         /\ \E sh \in shares : sh.file = f /\ sh.shared_with = user
         /\ \A sh \in shares :
                (sh.file = f /\ sh.shared_with = user) => is_expired(sh))
        => /\ download_file(f, user).message = "Permission denied"
           /\ get_download_url(f, user).message = "Permission denied"
           /\ f \notin FileQueryset(user)

\* ------------------------------------------------------------------------
\* Analytics: tracked events and the daily UserActivity rows
\* ------------------------------------------------------------------------
\* track_event calls begun in one run.
MaxEvents == 2

\* The days the clock goes through.
Dates == {1, 2}

\* Request workers, each running one track_event call at a time.
Workers == {"w1", "w2"}

\* user=None
NoUser == "none"

\* The event types of the branch in track_event that updates the activity.
CountedTypes == {"user_login", "chat_message", "file_upload", "file_download"}

EventTypes == CountedTypes \cup {"page_view", "error_occurred"}

\* The calls made: every counted type for one user, an uncounted type, and
\* an event without a user.
TrackInputs ==
    ({"u1"} \X CountedTypes) \cup {<<"u1", "page_view">>, <<NoUser, "user_login">>}

EventKeys == (Requesters \cup {NoUser}) \X EventTypes \X Dates

\* UserActivity row with the column defaults.
NewUserActivity(user, date) ==
    [user |-> user, date |-> date, login_count |-> 0, chat_messages_sent |-> 0,
     files_uploaded |-> 0, files_downloaded |-> 0]

NoRow == NewUserActivity(NoUser, 0)

UserActivity_exists(table, user, date) ==
    \E i \in DOMAIN table : table[i].user = user /\ table[i].date = date

\* UserActivity.objects.get(user=, date=): the row's id, 0 for DoesNotExist.
UserActivity_get(table, user, date) ==
    IF UserActivity_exists(table, user, date)
    THEN CHOOSE i \in DOMAIN table : table[i].user = user /\ table[i].date = date
    ELSE 0

UserActivity_insert_Unconstrained(table, row) ==
    [error |-> "", table |-> Append(table, row)]

\* INSERT into user_activities under unique_together (user, date).
UserActivity_insert(table, row) ==
    IF UserActivity_exists(table, row.user, row.date)
    THEN [error |-> "IntegrityError", table |-> table]
    ELSE [error |-> "", table |-> Append(table, row)]

NoOp ==
    [table |-> "", op |-> "", user |-> NoUser, date |-> 0, force |-> FALSE,
     error |-> ""]

CreateOp(table, user, date, error) ==
    [table |-> table, op |-> "create", user |-> user, date |-> date,
     force |-> FALSE, error |-> error]

IdleCall ==
    [pc |-> "idle", event_type |-> "", user |-> NoUser, today |-> 0,
     activity |-> 0, loaded |-> NoRow]

\* activity.save(update_fields=[the four counters, 'updated_at']): the counter
\* of the event's type is written as F(column) + 1, evaluated by the database
\* on the stored row; the other three are written from the loaded instance.
UserActivity_save(stored, loaded, event_type) ==
    [stored EXCEPT
        !.login_count = IF event_type = "user_login"
                        THEN stored.login_count + 1 ELSE loaded.login_count,
        !.chat_messages_sent = IF event_type = "chat_message"
                               THEN stored.chat_messages_sent + 1
                               ELSE loaded.chat_messages_sent,
        !.files_uploaded = IF event_type = "file_upload"
                           THEN stored.files_uploaded + 1
                           ELSE loaded.files_uploaded,
        !.files_downloaded = IF event_type = "file_download"
                             THEN stored.files_downloaded + 1
                             ELSE loaded.files_downloaded]

\* track_event up to the SELECT of get_or_create: the event row is created,
\* and for a user's counted event the day's activity row is looked up.
track_event(w) ==
    /\ calls[w].pc = "idle"
    /\ ncalls < MaxEvents
    /\ \E inp \in TrackInputs :
        LET user == inp[1]
            event_type == inp[2]
            id == UserActivity_get(user_activities, user, today)
        IN  /\ analytics_events' =
                [analytics_events EXCEPT ![<<user, event_type, today>>] = @ + 1]
            /\ calls' =
                IF user # NoUser /\ event_type \in CountedTypes
                THEN [calls EXCEPT ![w] =
                        [pc |-> IF id = 0 THEN "create" ELSE "save",
                         event_type |-> event_type, user |-> user,
                         today |-> today, activity |-> id,
                         loaded |-> IF id = 0 THEN NoRow
                                    ELSE user_activities[id]]]
                ELSE calls
    /\ ncalls' = ncalls + 1
    /\ db_op' = NoOp
    /\ UNCHANGED <<user_activities, today, system_metrics>>

\* get_or_create after DoesNotExist: the INSERT with the defaults; on
\* IntegrityError the row another call has inserted is fetched instead.
update_user_activity_create(w) ==
    /\ calls[w].pc = "create"
    /\ LET c == calls[w]
           r == UserActivity_insert(user_activities,
                                    NewUserActivity(c.user, c.today))
           id == UserActivity_get(r.table, c.user, c.today)
       IN  /\ user_activities' = r.table
           /\ calls' = [calls EXCEPT ![w] =
                            [c EXCEPT !.pc = "save", !.activity = id,
                                      !.loaded = r.table[id]]]
           /\ db_op' = CreateOp("user_activities", c.user, c.today, r.error)
    /\ UNCHANGED <<analytics_events, ncalls, today, system_metrics>>

\* The UPDATE that ends _update_user_activity.
update_user_activity_save(w) ==
    /\ calls[w].pc = "save"
    /\ LET c == calls[w]
       IN  user_activities' =
               [user_activities EXCEPT ![c.activity] =
                    UserActivity_save(@, c.loaded, c.event_type)]
    /\ calls' = [calls EXCEPT ![w] = IdleCall]
    /\ db_op' = NoOp
    /\ UNCHANGED <<analytics_events, ncalls, today, system_metrics>>

\* UserActivity.objects.create(user=, date=today)
UserActivity_objects_create ==
    \E user \in Users, date \in {today} :
        LET r == UserActivity_insert(user_activities, NewUserActivity(user, date))
        IN  /\ user_activities' = r.table
            /\ db_op' = CreateOp("user_activities", user, date, r.error)
            /\ UNCHANGED <<analytics_events, calls, ncalls, today, system_metrics>>

\* Midnight.
NextDay ==
    /\ today + 1 \in Dates
    /\ today' = today + 1
    /\ db_op' = NoOp
    /\ UNCHANGED <<analytics_events, user_activities, calls, ncalls, system_metrics>>

AnalyticsStep ==
    \/ \E w \in Workers : track_event(w)
    \/ \E w \in Workers : update_user_activity_create(w)
    \/ \E w \in Workers : update_user_activity_save(w)
    \/ UserActivity_objects_create
    \/ NextDay

Quiescent == \A w \in Workers : calls[w].pc = "idle"

Tracked(user, event_type, date) == analytics_events[<<user, event_type, date>>]

\* C7: once no track_event call is in progress, every user's row of every day
\* holds, in each of its four counters, the number of events of the matching
\* type tracked for that user on that day, whatever the interleaving of the
\* calls was.
C7_CountersEqualTrackedEvents ==
    Quiescent =>
        \A user \in Users, date \in Dates :
            LET id == UserActivity_get(user_activities, user, date)
            IN  /\ (\E t \in CountedTypes : Tracked(user, t, date) > 0) => id # 0
                /\ id # 0 =>
                    /\ user_activities[id].login_count
                         = Tracked(user, "user_login", date)
                    /\ user_activities[id].chat_messages_sent
                         = Tracked(user, "chat_message", date)
                    /\ user_activities[id].files_uploaded
                         = Tracked(user, "file_upload", date)
                    /\ user_activities[id].files_downloaded
                         = Tracked(user, "file_download", date)

\* C8: no two UserActivity rows share (user, date), and a create for a pair
\* that has a row fails with IntegrityError and changes nothing in the table.
C8_OneActivityPerUserAndDate ==
    [][/\ \A i, j \in DOMAIN user_activities' :
            (/\ user_activities'[i].user = user_activities'[j].user
             /\ user_activities'[i].date = user_activities'[j].date) => i = j
       /\ (/\ db_op'.table = "user_activities"
           /\ db_op'.op = "create"
           /\ UserActivity_exists(user_activities, db_op'.user, db_op'.date))
            => /\ db_op'.error = "IntegrityError"
               /\ user_activities' = user_activities]_vars

C8_Witness ==
    /\ db_op.table = "user_activities"
    /\ db_op.op = "create"
    /\ db_op.error = "IntegrityError"
    /\ UserActivity_exists(user_activities, db_op.user, db_op.date)
    /\ Len(user_activities) >= 2
    /\ \E w \in Workers : calls[w].pc = "save" /\ calls[w].user = db_op.user

\* POST to the event list endpoint: perform_create tracks the event for the
\* requesting user; the request is served to its end.
AnalyticsEventListView_post ==
    /\ ncalls < MaxEvents
    /\ \E user \in Users, event_type \in EventTypes :
        LET found == UserActivity_get(user_activities, user, today)
            r == IF found = 0
                 THEN UserActivity_insert(user_activities,
                                          NewUserActivity(user, today))
                 ELSE [error |-> "", table |-> user_activities]
            id == UserActivity_get(r.table, user, today)
        IN  /\ analytics_events' =
                [analytics_events EXCEPT ![<<user, event_type, today>>] = @ + 1]
            /\ user_activities' =
                IF event_type \in CountedTypes
                THEN [r.table EXCEPT ![id] = UserActivity_save(@, @, event_type)]
                ELSE user_activities
    /\ ncalls' = ncalls + 1
    /\ db_op' = NoOp
    /\ UNCHANGED <<calls, today, system_metrics>>

ListsStep ==
    \/ AnalyticsEventListView_post
    \/ UserActivity_objects_create
    \/ NextDay

\* A query parameter that is not sent.
NoParams == [event_type |-> "", user_id |-> "", start_date |-> 0, end_date |-> 0]

\* Query strings of the list requests: none, ?user_id=, ?event_type=,
\* ?start_date= and ?end_date=.
ListParams ==
    {NoParams,
     [NoParams EXCEPT !.user_id = "u1"],
     [NoParams EXCEPT !.user_id = "u2"],
     [NoParams EXCEPT !.event_type = "user_login"],
     [NoParams EXCEPT !.start_date = 2],
     [NoParams EXCEPT !.end_date = 1, !.user_id = "u2"]}

\* The analytics_events rows, one <<user, type, day>> for each kind stored.
AnalyticsEvent_objects == {k \in EventKeys : analytics_events[k] > 0}

\* AnalyticsEventListView.get_queryset
AnalyticsEventListView_get_queryset(user, params) ==
    {k \in AnalyticsEvent_objects :
        /\ ~is_staff(user) => k[1] = user
        /\ params.event_type # "" => k[2] = params.event_type
        /\ params.start_date # 0 => k[3] >= params.start_date
        /\ params.end_date # 0 => k[3] <= params.end_date}

UserActivityListView_get_queryset_ByUserId(user, params) ==
    {id \in DOMAIN user_activities :
        /\ IF params.user_id # ""
           THEN user_activities[id].user = params.user_id
           ELSE ~is_staff(user) => user_activities[id].user = user
        /\ params.start_date # 0 => user_activities[id].date >= params.start_date
        /\ params.end_date # 0 => user_activities[id].date <= params.end_date}

\* UserActivityListView.get_queryset: ?user_id= counts for staff only.
UserActivityListView_get_queryset(user, params) ==
    {id \in DOMAIN user_activities :
        /\ ~is_staff(user) => user_activities[id].user = user
        /\ (params.user_id # "" /\ is_staff(user))
                => user_activities[id].user = params.user_id
        /\ params.start_date # 0 => user_activities[id].date >= params.start_date
        /\ params.end_date # 0 => user_activities[id].date <= params.end_date}

\* C13: whatever the query parameters, the event list and the activity list
\* of a requester who is not staff hold only rows of the requester; a staff
\* requester who sends no parameters is shown every row.
C13_ListsShowOnlyOwnRows ==
    \A user \in Requesters, params \in ListParams :
        LET events == AnalyticsEventListView_get_queryset(user, params)
            activities == UserActivityListView_get_queryset(user, params)
        IN  /\ ~is_staff(user) =>
                /\ \A k \in events : k[1] = user
                /\ \A id \in activities : user_activities[id].user = user
            /\ (is_staff(user) /\ params = NoParams) =>
                /\ events = AnalyticsEvent_objects
                /\ activities = DOMAIN user_activities

C13_Witness ==
    LET params == [NoParams EXCEPT !.user_id = "u2"]
    IN  /\ \E k \in AnalyticsEvent_objects : k[1] = "u2"
        /\ \E k \in AnalyticsEventListView_get_queryset("u1", params) : k[1] = "u1"
        /\ \E id \in DOMAIN user_activities : user_activities[id].user = "u2"
        /\ UserActivityListView_get_queryset("u1", params) # {}
        /\ \E id \in UserActivityListView_get_queryset("staff", params) :
                user_activities[id].user = "u2"

InitAnalytics ==
    /\ analytics_events = [k \in EventKeys |-> 0]
    /\ user_activities = <<>>
    /\ calls = [w \in Workers |-> IdleCall]
    /\ ncalls = 0
    /\ today = 1
    /\ system_metrics = <<>>
    /\ db_op = NoOp

\* ------------------------------------------------------------------------
\* Analytics: the daily SystemMetrics rows
\* ------------------------------------------------------------------------
\* date_filter=None
NoDate == 0

SystemMetrics_exists(table, date) == \E i \in DOMAIN table : table[i].date = date

\* SystemMetrics.objects.filter(date=date).first(): the row's id, 0 for None.
SystemMetrics_first(table, date) ==
    IF SystemMetrics_exists(table, date)
    THEN CHOOSE i \in DOMAIN table :
            table[i].date = date /\ \A j \in DOMAIN table : table[j].date = date => i <= j
    ELSE 0

\* INSERT into system_metrics under unique_together (date).
SystemMetrics_insert(table, row) ==
    IF SystemMetrics_exists(table, row.date)
    THEN [error |-> "IntegrityError", table |-> table]
    ELSE [error |-> "", table |-> Append(table, row)]

\* User.objects.count()
User_count == Cardinality(AllUsers)

\* SystemMetrics row with the column defaults.
NewSystemMetrics(date) == [date |-> date, total_users |-> 0, active_users |-> 0]

\* UserActivity.objects.filter(date=target_date).count()
ActivityRows(acts, date) ==
    Cardinality({i \in DOMAIN acts : acts[i].date = date})

\* UserActivity.objects.filter(date=date).values('user').distinct().count()
ActiveUsers(acts, date) ==
    Cardinality({acts[i].user : i \in {k \in DOMAIN acts : acts[k].date = date}})

\* The metrics of a newly created row, calculated and saved.
_calculate_system_metrics(metrics, acts, target_date) ==
    [metrics EXCEPT !.total_users = User_count,
                    !.active_users = ActivityRows(acts, target_date)]

\* The service: get_or_create with the zero defaults; a row it has created
\* gets its metrics calculated.
get_system_metrics_of(table, acts, target_date) ==
    IF SystemMetrics_exists(table, target_date)
    THEN [error |-> "", table |-> table]
    ELSE LET created == SystemMetrics_insert(table, NewSystemMetrics(target_date))
             id == SystemMetrics_first(created.table, target_date)
         IN  [error |-> created.error,
              table |-> [created.table EXCEPT
                            ![id] = _calculate_system_metrics(@, acts, target_date)]]

_generate_metrics_for_date_Regenerating(table, acts, date, force) ==
    LET existing_metrics == SystemMetrics_first(table, date)
        metrics_data == [date |-> date, total_users |-> User_count,
                         active_users |-> ActiveUsers(acts, date)]
    IN  IF existing_metrics # 0
        THEN [error |-> "", table |-> [table EXCEPT ![existing_metrics] = metrics_data]]
        ELSE SystemMetrics_insert(table, metrics_data)

\* The command, for one date: nothing is done for a date that has a row unless
\* --force is given; otherwise the row is updated, or created when missing.
_generate_metrics_for_date(table, acts, date, force) ==
    LET existing_metrics == SystemMetrics_first(table, date)
        metrics_data == [date |-> date, total_users |-> User_count,
                         active_users |-> ActiveUsers(acts, date)]
    IN  IF existing_metrics # 0 /\ ~force
        THEN [error |-> "", table |-> table]
        ELSE IF existing_metrics # 0
        THEN [error |-> "", table |-> [table EXCEPT ![existing_metrics] = metrics_data]]
        ELSE SystemMetrics_insert(table, metrics_data)

get_system_metrics ==
    \E date_filter \in Dates \cup {NoDate} :
        LET target_date == IF date_filter # NoDate THEN date_filter ELSE today
            r == get_system_metrics_of(system_metrics, user_activities, target_date)
        IN  /\ system_metrics' = r.table
            /\ db_op' = [table |-> "system_metrics", op |-> "get_or_create",
                         user |-> NoUser, date |-> target_date, force |-> FALSE,
                         error |-> r.error]
            /\ UNCHANGED <<analytics_events, user_activities, calls, ncalls, today>>

generate_system_metrics ==
    \E date \in Dates, force \in BOOLEAN :
        LET r == _generate_metrics_for_date(system_metrics, user_activities,
                                            date, force)
        IN  /\ system_metrics' = r.table
            /\ db_op' = [table |-> "system_metrics", op |-> "generate",
                         user |-> NoUser, date |-> date, force |-> force,
                         error |-> r.error]
            /\ UNCHANGED <<analytics_events, user_activities, calls, ncalls, today>>

\* SystemMetrics.objects.create(date=)
SystemMetrics_objects_create ==
    \E date \in Dates :
        LET r == SystemMetrics_insert(system_metrics, NewSystemMetrics(date))
        IN  /\ system_metrics' = r.table
            /\ db_op' = CreateOp("system_metrics", NoUser, date, r.error)
            /\ UNCHANGED <<analytics_events, user_activities, calls, ncalls, today>>

MetricsStep ==
    \/ get_system_metrics
    \/ generate_system_metrics
    \/ SystemMetrics_objects_create
    \/ UserActivity_objects_create
    \/ NextDay

\* C9: no two SystemMetrics rows share a date, and a command run without
\* --force for a date that has a row leaves the table as it was.
C9_OneMetricsRowPerDate ==
    [][/\ \A i, j \in DOMAIN system_metrics' :
            system_metrics'[i].date = system_metrics'[j].date => i = j
       /\ (/\ db_op'.op = "generate"
           /\ ~db_op'.force
           /\ SystemMetrics_exists(system_metrics, db_op'.date))
            => system_metrics' = system_metrics]_vars

C9_Witness ==
    /\ db_op.op = "generate"
    /\ ~db_op.force
    /\ Len(system_metrics) = 2
    /\ \E i \in DOMAIN system_metrics :
        /\ system_metrics[i].date = db_op.date
        /\ system_metrics[i].active_users # ActiveUsers(user_activities, db_op.date)

\* ------------------------------------------------------------------------
\* Analytics: reports
\* ------------------------------------------------------------------------
\* Reports created in one run.
MaxReports == 2

REPORT_TYPES ==
    {"user_activity", "system_performance", "revenue", "content_usage",
     "error_analysis", "custom"}

REPORT_FORMATS == {"json", "csv", "pdf", "excel"}

STATUS_CHOICES == {"pending", "generating", "completed", "failed"}

\* The report types _generate_report has a generator for.
GeneratedTypes == {"user_activity", "system_metrics", "feature_usage", "error_logs"}

\* The formats _generate_report can write.
GeneratedFormats == {"json", "csv"}

\* The methods the Report model defines.
ReportMethods == {"mark_as_completed", "mark_as_failed"}

ReportNames == {"Test Report", "Weekly"}

ReportTypeInputs == {"user_activity", "revenue", "feature_usage"}

ReportFormatInputs == {"json", "pdf", "xml"}

\* Report row as Report.objects.create(...) makes it.
NewReport(name, report_type, report_format, user) ==
    [name |-> name, report_type |-> report_type, report_format |-> report_format,
     requested_by |-> user, status |-> "pending", progress |-> 0,
     error_message |-> "", file_path |-> "", completed_at |-> NULL]

\* Report.mark_as_completed
mark_as_completed(report) ==
    [report EXCEPT !.status = "completed", !.progress = 100, !.completed_at = Now]

\* Report.mark_as_failed: status and error_message are set and saved.
mark_as_failed(report, error_message) ==
    [report EXCEPT !.status = "failed", !.error_message = error_message]

\* _generate_report: the row as the last save leaves it, and the exception
\* that leaves the function, "" when it returns.
_generate_report(report) ==
    LET processing == [report EXCEPT !.status = "processing", !.progress = 0]
        generated == report.report_type \in GeneratedTypes
        halfway == IF generated THEN [processing EXCEPT !.progress = 50]
                   ELSE processing
        written == generated /\ report.report_format \in GeneratedFormats
        error == IF ~generated THEN "Unknown report type"
                 ELSE IF ~written THEN "Unknown report format"
                 ELSE "AttributeError"
    IN  IF written /\ "mark_completed" \in ReportMethods
        THEN [report |-> mark_as_completed(halfway), raised |-> ""]
        ELSE IF "mark_failed" \in ReportMethods
        THEN [report |-> mark_as_failed(halfway, error), raised |-> ""]
        ELSE [report |-> halfway, raised |-> "AttributeError"]

\* ReportService.create_report: the table afterwards, the exception raised
\* ("" for a normal return) and the id of the report returned (0 for none).
create_report(table, name, report_type, report_format, user) ==
    LET g == _generate_report(NewReport(name, report_type, report_format, user))
    IN  [table |-> Append(table, g.report),
         raised |-> g.raised,
         returned |-> IF g.raised = "" THEN Len(table) + 1 ELSE 0]

\* The requests POSTed: by two users and an admin, with a generated and an
\* ungenerated type, a written and an unwritten format, and a type and a
\* format outside the model's choices.
ReportRequests ==
    {rr \in AllUsers \X ReportNames \X ReportTypeInputs \X ReportFormatInputs :
        rr \in {<<"u1", "Test Report", "user_activity", "json">>,
                <<"u2", "Weekly", "user_activity", "json">>,
                <<"u1", "Weekly", "revenue", "json">>,
                <<"admin", "Test Report", "user_activity", "pdf">>,
                <<"u1", "Test Report", "feature_usage", "json">>,
                <<"u2", "Weekly", "user_activity", "xml">>}}

NoReportMark == [id |-> 0, method |-> "", error_message |-> ""]

NoReportCall ==
    [valid |-> FALSE, user |-> NoUser, name |-> "", report_type |-> "",
     raised |-> "", returned |-> 0, rows_before |-> 0]

\* POST to the report list endpoint: the serializer admits the model's choices
\* for the type and the format, and perform_create calls the service.
ReportListCreateView_post ==
    /\ Len(reports) < MaxReports
    /\ report_mark' = NoReportMark
    /\ \E rr \in ReportRequests :
        LET user == rr[1]
            name == rr[2]
            report_type == rr[3]
            report_format == rr[4]
        IN
        IF report_type \in REPORT_TYPES /\ report_format \in REPORT_FORMATS
        THEN LET r == create_report(reports, name, report_type, report_format, user)
             IN  /\ reports' = r.table
                 /\ report_call' =
                        [valid |-> TRUE, user |-> user, name |-> name,
                         report_type |-> report_type, raised |-> r.raised,
                         returned |-> r.returned, rows_before |-> Len(reports)]
        ELSE /\ reports' = reports
             /\ report_call' =
                    [valid |-> FALSE, user |-> user, name |-> name,
                     report_type |-> report_type, raised |-> "ValidationError",
                     returned |-> 0, rows_before |-> Len(reports)]

ErrorMessages == {"Database connection failed"}

\* report.mark_as_failed(error_message) on a stored report.
Report_mark_as_failed ==
    \E id \in DOMAIN reports, error_message \in ErrorMessages :
        /\ reports' = [reports EXCEPT ![id] = mark_as_failed(@, error_message)]
        /\ report_mark' = [id |-> id, method |-> "mark_as_failed",
                           error_message |-> error_message]
        /\ report_call' = NoReportCall

\* report.mark_as_completed() on a stored report.
Report_mark_as_completed ==
    \E id \in DOMAIN reports :
        /\ reports' = [reports EXCEPT ![id] = mark_as_completed(@)]
        /\ report_mark' = [id |-> id, method |-> "mark_as_completed",
                           error_message |-> ""]
        /\ report_call' = NoReportCall

ReportsStep ==
    \/ ReportListCreateView_post
    \/ Report_mark_as_failed
    \/ Report_mark_as_completed

\* C10: create_report called with a valid request returns the new report
\* without raising: one row more than before, owned by the requesting user,
\* with the requested name and type, in status 'pending'.
C10_CreateReportReturnsPendingReport ==
    report_call.valid =>
        /\ report_call.raised = ""
        /\ Len(reports) = report_call.rows_before + 1
        /\ report_call.returned = Len(reports)
        /\ reports[Len(reports)].requested_by = report_call.user
        /\ reports[Len(reports)].name = report_call.name
        /\ reports[Len(reports)].report_type = report_call.report_type
        /\ reports[Len(reports)].status = "pending"

\* ?report_type= and ?status= of the report list; "" for a parameter not sent.
ReportListParams ==
    [report_type : {"", "user_activity"}, status : {"", "processing", "completed"}]

ReportListCreateView_get_queryset_Unfiltered(user, params) ==
    {id \in DOMAIN reports :
        /\ params.report_type # "" => reports[id].report_type = params.report_type
        /\ params.status # "" => reports[id].status = params.status}

\* ReportListCreateView.get_queryset: the ids of the reports listed.
ReportListCreateView_get_queryset(user, params) ==
    {id \in DOMAIN reports :
        /\ ~is_staff(user) => reports[id].requested_by = user
        /\ params.report_type # "" => reports[id].report_type = params.report_type
        /\ params.status # "" => reports[id].status = params.status}

\* ReportDetailView: the status the GET of one report is answered with.
ReportDetailView_retrieve(user, id) ==
    IF id \in {i \in DOMAIN reports :
                    ~is_staff(user) => reports[i].requested_by = user}
    THEN 200 ELSE 404

\* ReportDownloadView: only completed reports are looked up, and a report
\* without a stored file path is answered like a missing one.
ReportDownloadView_retrieve(user, id) ==
    IF id \in {i \in DOMAIN reports :
                    /\ reports[i].status = "completed"
                    /\ ~is_staff(user) => reports[i].requested_by = user}
    THEN IF reports[id].file_path = "" \/ reports[id].status # "completed"
         THEN 404 ELSE 200
    ELSE 404

\* The reports a user is shown through any of the three views.
ReportsShown(user) ==
    {id \in DOMAIN reports :
        \/ \E params \in ReportListParams :
                id \in ReportListCreateView_get_queryset(user, params)
        \/ ReportDetailView_retrieve(user, id) = 200
        \/ ReportDownloadView_retrieve(user, id) = 200}

\* C12: a user who is not staff is shown, by the list, the detail and the
\* download view, only reports they requested; for another user's report
\* the detail and the download request are answered with 404.
C12_OnlyOwnReportsShown ==
    \A user \in Requesters :
        ~is_staff(user) =>
            \A id \in DOMAIN reports :
                reports[id].requested_by # user =>
                    /\ id \notin ReportsShown(user)
                    /\ ReportDetailView_retrieve(user, id) = 404
                    /\ ReportDownloadView_retrieve(user, id) = 404

C12_Witness ==
    \E id, other \in DOMAIN reports :
        /\ reports[id].requested_by = "u1"
        /\ reports[other].requested_by = "u2"
        /\ reports[other].status = "completed"
        /\ id \in ReportsShown("u1")
        /\ other \notin ReportsShown("u1")
        /\ other \in ReportsShown("staff")

\* C11: a report marked as failed has status 'failed', the error message
\* given, and a completed_at that is not null.
C11_MarkFailedSetsCompletedAt ==
    report_mark.method = "mark_as_failed" =>
        /\ reports[report_mark.id].status = "failed"
        /\ reports[report_mark.id].error_message = report_mark.error_message
        /\ reports[report_mark.id].completed_at # NULL

\* C25: every report has a status among the declared STATUS_CHOICES and a
\* progress between 0 and 100; a 'completed' report has progress 100.
C25_ReportStatusDeclared ==
    \A id \in DOMAIN reports :
        /\ reports[id].status \in STATUS_CHOICES
        /\ reports[id].progress \in 0..100
        /\ reports[id].status = "completed" => reports[id].progress = 100

InitReports ==
    /\ reports = <<>>
    /\ report_call = NoReportCall
    /\ report_mark = NoReportMark

\* ------------------------------------------------------------------------
\* Analytics: error logs and the admin-only views
\* ------------------------------------------------------------------------
\* Error logs created in one run.
MaxErrors == 2

\* permissions.IsAdminUser of the authentication app: the role decides.
IsAdminUser(user) == is_admin(user)

\* GET of the system metrics list: the status of the response.
SystemMetricsListView_get(user) == IF IsAdminUser(user) THEN 200 ELSE 403

\* GET of the error log list: the status of the response.
ErrorLogListView_get(user) == IF IsAdminUser(user) THEN 200 ELSE 403

\* ErrorLog row as ErrorTrackingService.log_error creates it.
NewErrorLog(user) ==
    [user |-> user, is_resolved |-> FALSE, resolved_at |-> NULL,
     resolved_by |-> NoUser]

\* POST to errors/log/: the row is created and the error event is tracked.
log_error ==
    /\ Len(error_logs) < MaxErrors
    /\ \E user \in Requesters :
        /\ IsAdminUser(user)
        /\ error_logs' = Append(error_logs, NewErrorLog(user))
        /\ analytics_events' =
            [analytics_events EXCEPT ![<<user, "error_occurred", today>>] = @ + 1]
    /\ ncalls' = ncalls + 1
    /\ db_op' = NoOp
    /\ error_patch' = [id |-> 0, user |-> NoUser, data |-> [has |-> {}]]
    /\ UNCHANGED <<user_activities, calls, today, system_metrics, list_call>>

\* Bodies of the PATCH: the fields sent are the keys in has.
PatchBodies ==
    {[has |-> {"is_resolved"}, is_resolved |-> TRUE, resolved_at |-> NULL,
      resolved_by |-> NoUser],
     [has |-> {"is_resolved"}, is_resolved |-> FALSE, resolved_at |-> NULL,
      resolved_by |-> NoUser],
     [has |-> {"is_resolved", "resolved_at"}, is_resolved |-> TRUE,
      resolved_at |-> Now, resolved_by |-> NoUser],
     [has |-> {"is_resolved", "resolved_by"}, is_resolved |-> TRUE,
      resolved_at |-> NULL, resolved_by |-> "u2"]}

\* serializer.save() of a partial update: the fields sent are written.
ErrorLogSerializer_save(row, data) ==
    [f \in DOMAIN row |-> IF f \in data.has THEN data[f] ELSE row[f]]

\* ErrorLogDetailView.perform_update
perform_update(row, data, user) ==
    LET error_log == ErrorLogSerializer_save(row, data)
    IN  IF Get(data, "is_resolved", FALSE) /\ error_log.resolved_at = NULL
        THEN [error_log EXCEPT !.resolved_by = user, !.resolved_at = Now]
        ELSE error_log

\* PATCH of errors/<pk>/ by an admin.
ErrorLogDetailView_patch ==
    \E user \in Requesters, id \in DOMAIN error_logs, data \in PatchBodies :
        /\ IsAdminUser(user)
        /\ error_logs' = [error_logs EXCEPT ![id] = perform_update(@, data, user)]
        /\ error_patch' = [id |-> id, user |-> user, data |-> data]
        /\ UNCHANGED <<analyticsVars, list_call>>

\* GET metrics/ by any requester: nothing is written.
SystemMetricsListView_list ==
    \E user \in Requesters :
        /\ list_call' = [view |-> "metrics", user |-> user,
                         status |-> SystemMetricsListView_get(user)]
        /\ UNCHANGED <<analyticsVars, error_logs, error_patch>>

\* GET errors/ by any requester: nothing is written.
ErrorLogListView_list ==
    \E user \in Requesters :
        /\ list_call' = [view |-> "errors", user |-> user,
                         status |-> ErrorLogListView_get(user)]
        /\ UNCHANGED <<analyticsVars, error_logs, error_patch>>

ErrorsStep ==
    \/ log_error
    \/ ErrorLogDetailView_patch
    \/ SystemMetricsListView_list
    \/ ErrorLogListView_list

\* C14: the system metrics list and the error log list answer 200 to a user
\* created with is_staff=True and 403 to a regular user.
C14_StaffListsMetricsAndErrors ==
    list_call.view \in {"metrics", "errors"}
    => /\ is_staff(list_call.user) => list_call.status = 200
       /\ (~is_staff(list_call.user) /\ ~is_admin(list_call.user))
            => list_call.status = 403

\* C15: after an admin's PATCH with is_resolved true the log is resolved,
\* resolved_by is that admin and resolved_at is set; and every resolved log
\* has resolved_by and resolved_at set.
C15_ResolvedLogsHaveResolver ==
    /\ (error_patch.id # 0 /\ Get(error_patch.data, "is_resolved", FALSE)) =>
        /\ error_logs[error_patch.id].is_resolved
        /\ error_logs[error_patch.id].resolved_by = error_patch.user
        /\ error_logs[error_patch.id].resolved_at # NULL
    /\ \A id \in DOMAIN error_logs :
        error_logs[id].is_resolved =>
            /\ error_logs[id].resolved_by # NoUser
            /\ error_logs[id].resolved_at # NULL

InitErrors ==
    /\ error_logs = <<>>
    /\ error_patch = [id |-> 0, user |-> NoUser, data |-> [has |-> {}]]
    /\ list_call = [view |-> "", user |-> NoUser, status |-> 0]

\* ------------------------------------------------------------------------
\* Authentication: subscriptions
\* ------------------------------------------------------------------------
\* The last day the clock reaches.
MaxClock == 3

SubscriptionTypes == {"free", "basic", "premium", "lifetime"}

\* duration_days of the request: none, zero, or one day.
DurationInputs == {NULL, 0, 1}

\* The subscription columns of a new user.
NewSubscription ==
    [subscription_type |-> "free", subscription_status |-> "active",
     subscription_start_date |-> NULL, subscription_end_date |-> NULL]

\* User.is_subscription_active at the time now.
is_subscription_active(u, now) ==
    IF u.subscription_status # "active" THEN FALSE
    ELSE IF u.subscription_type = "lifetime" THEN TRUE
    ELSE IF u.subscription_end_date # NULL THEN now <= u.subscription_end_date
    ELSE TRUE

\* User.upgrade_subscription
upgrade_subscription(u, new_type, duration_days, now) ==
    LET u1 == [u EXCEPT !.subscription_type = new_type,
                        !.subscription_status = "active"]
    IN  IF new_type = "lifetime" THEN [u1 EXCEPT !.subscription_end_date = NULL]
        ELSE IF duration_days # NULL /\ duration_days # 0
        THEN [u1 EXCEPT !.subscription_start_date = now,
                        !.subscription_end_date = now + duration_days]
        ELSE u1

NoSubCall == [user |-> NoUser, new_type |-> "", duration_days |-> NULL]

\* POST users/<id>/upgrade-subscription/ by an admin.
upgrade_user_subscription ==
    /\ \E user \in Users, new_type \in SubscriptionTypes,
          duration_days \in DurationInputs :
        /\ subscriptions' = [subscriptions EXCEPT
                ![user] = upgrade_subscription(@, new_type, duration_days, clock)]
        /\ sub_call' = [user |-> user, new_type |-> new_type,
                        duration_days |-> duration_days]
    /\ UNCHANGED clock

\* Time passes.
Tick ==
    /\ clock < MaxClock
    /\ clock' = clock + 1
    /\ sub_call' = NoSubCall
    /\ UNCHANGED subscriptions

SubscriptionsStep ==
    \/ upgrade_user_subscription
    \/ Tick

\* C23: after upgrade_subscription returns, whatever the type, the duration
\* and the earlier subscription were, the user's subscription is active;
\* when the new type is 'lifetime' the end date is null.
C23_UpgradeMakesSubscriptionActive ==
    sub_call.user # NoUser
    => /\ is_subscription_active(subscriptions[sub_call.user], clock)
       /\ sub_call.new_type = "lifetime"
            => subscriptions[sub_call.user].subscription_end_date = NULL

InitAuth ==
    /\ clock = 0
    /\ subscriptions = [u \in Users |-> NewSubscription]
    /\ sub_call = NoSubCall

\* ------------------------------------------------------------------------
\* Authentication: sessions
\* ------------------------------------------------------------------------
\* Sessions opened in one run.
MaxSessions == 2

\* A worker that serves no logout request.
IdleLogout == [pc |-> "idle", session |-> 0, session_end |-> NULL, total |-> 0]

\* POST login/ (UserLoginView.post): a session is opened.  first_end is
\* history: the first session_end written to the row.
UserLoginView_post ==
    /\ Len(sessions) < MaxSessions
    /\ \E user \in Users :
        sessions' = Append(sessions,
            [user |-> user, session_start |-> clock, session_end |-> NULL,
             first_end |-> NULL])
    /\ UNCHANGED <<total_time_spent, logouts, clock, sub_call>>

\* POST logout/ (UserLogoutView.post) up to the lookup of the open session;
\* when no open session has that id the request ends and nothing is written.
UserLogoutView_post(w) ==
    /\ logouts[w].pc = "idle"
    /\ \E user \in Users, session_id \in 1..Len(sessions) :
        /\ sessions[session_id].user = user
        /\ sessions[session_id].session_end = NULL
        /\ logouts' = [logouts EXCEPT ![w] =
                [IdleLogout EXCEPT !.pc = "loaded", !.session = session_id]]
    /\ UNCHANGED <<sessions, total_time_spent, clock, sub_call>>

\* UserSession.end_session: the loaded row has no session_end, so it is set
\* and saved.
end_session_save(w) ==
    /\ logouts[w].pc = "loaded"
    /\ sessions' = [sessions EXCEPT
            ![logouts[w].session].session_end = clock,
            ![logouts[w].session].first_end = IF @ = NULL THEN clock ELSE @]
    /\ logouts' = [logouts EXCEPT ![w].pc = "ended", ![w].session_end = clock]
    /\ UNCHANGED <<total_time_spent, clock, sub_call>>

\* UserSession.end_session: self.user is fetched.
end_session_load_user(w) ==
    /\ logouts[w].pc = "ended"
    /\ logouts' = [logouts EXCEPT
            ![w].pc = "user", ![w].total = total_time_spent[sessions[logouts[w].session].user]]
    /\ UNCHANGED <<sessions, total_time_spent, clock, sub_call>>

\* UserSession.end_session: the duration is added to the fetched total and
\* the user is saved with update_fields=['total_time_spent'].
end_session_save_user(w) ==
    /\ logouts[w].pc = "user"
    /\ LET session == sessions[logouts[w].session]
           duration == logouts[w].session_end - session.session_start
       IN  total_time_spent' = [total_time_spent EXCEPT
                ![session.user] = logouts[w].total + duration]
    /\ logouts' = [logouts EXCEPT ![w] = IdleLogout]
    /\ UNCHANGED <<sessions, clock, sub_call>>

SessionsStep ==
    \/ UserLoginView_post
    \/ \E w \in Workers : UserLogoutView_post(w)
    \/ \E w \in Workers : end_session_save(w)
    \/ \E w \in Workers : end_session_load_user(w)
    \/ \E w \in Workers : end_session_save_user(w)
    \/ (Tick /\ UNCHANGED sessionVars)

RECURSIVE EndedDurations(_, _)
\* The sum of the durations of the ended sessions of a user, each counted
\* once with its first session_end.
EndedDurations(rows, user) ==
    IF rows = <<>> THEN 0
    ELSE (IF Head(rows).user = user /\ Head(rows).first_end # NULL
          THEN Head(rows).first_end - Head(rows).session_start ELSE 0)
         + EndedDurations(Tail(rows), user)

\* C24: each session adds its duration to the owner's total_time_spent
\* exactly once: repeated or concurrent logouts of one session leave
\* session_end at its first value and add the duration only once.
C24_SessionCountedOnce ==
    /\ \A s \in 1..Len(sessions) :
            sessions[s].session_end # NULL
            => sessions[s].session_end = sessions[s].first_end
    /\ (\A w \in Workers : logouts[w].pc = "idle")
        => \A user \in Users :
                total_time_spent[user] = EndedDurations(sessions, user)

InitSessions ==
    /\ sessions = <<>>
    /\ total_time_spent = [u \in Users |-> 0]
    /\ logouts = [w \in Workers |-> IdleLogout]

\* ------------------------------------------------------------------------
\* Specifications
\* ------------------------------------------------------------------------
Init == InitChat /\ InitFiles /\ InitAnalytics /\ InitReports /\ InitErrors /\ InitAuth
        /\ InitSessions

NextChat == ChatStep /\ UNCHANGED <<fileVars, analyticsVars, reportVars, errorVars, authVars,
                sessionVars>>

NextFolders == FoldersStep /\ UNCHANGED <<fileVars, analyticsVars, reportVars, errorVars, authVars,
                sessionVars>>

NextFiles == FilesStep /\ UNCHANGED <<chatVars, analyticsVars, reportVars, errorVars, authVars,
                sessionVars>>

NextAnalytics == AnalyticsStep /\ UNCHANGED <<chatVars, fileVars, reportVars, errorVars, authVars,
                sessionVars>>

NextLists == ListsStep /\ UNCHANGED <<chatVars, fileVars, reportVars, errorVars, authVars,
                sessionVars>>

NextMetrics == MetricsStep /\ UNCHANGED <<chatVars, fileVars, reportVars, errorVars, authVars,
                sessionVars>>

NextShares == SharesStep /\ UNCHANGED <<chatVars, analyticsVars, reportVars, errorVars, authVars,
                sessionVars>>

NextSubscriptions ==
    SubscriptionsStep /\ UNCHANGED <<chatVars, fileVars, analyticsVars, reportVars, errorVars,
                                    sessionVars>>

NextSessions ==
    SessionsStep /\ UNCHANGED <<chatVars, fileVars, analyticsVars, reportVars, errorVars,
                               subscriptions>>

NextReports == ReportsStep /\ UNCHANGED <<chatVars, fileVars, analyticsVars, errorVars, authVars,
                sessionVars>>

NextErrors == ErrorsStep /\ UNCHANGED <<chatVars, fileVars, reportVars, authVars,
                sessionVars>>

SpecChat == Init /\ [][NextChat]_vars

SpecFolders == Init /\ [][NextFolders]_vars

SpecFiles == Init /\ [][NextFiles]_vars

SpecAnalytics == Init /\ [][NextAnalytics]_vars

SpecLists == Init /\ [][NextLists]_vars

SpecMetrics == Init /\ [][NextMetrics]_vars

SpecShares == Init /\ [][NextShares]_vars

SpecSubscriptions == Init /\ [][NextSubscriptions]_vars

SpecSessions == Init /\ [][NextSessions]_vars

SpecReports == Init /\ [][NextReports]_vars

SpecErrors == Init /\ [][NextErrors]_vars
====
